---------------------------- MODULE Spec2Model ----------------------------
(***************************************************************************)
(* A model of the Nova Act script runner: the script catalog, the          *)
(* validator and the execution engine of src/src/runner.py, the command    *)
(* line surface of src/src/cli.py and the HTTP surface of                  *)
(* src/src/server.py.                                                      *)
(*                                                                         *)
(* Text is a sequence of characters (one-character strings); a word the    *)
(* code never looks into (an environment key, a value) may be one element. *)
(* A path is the sequence of its components below "/", each a text.        *)
(***************************************************************************)
EXTENDS Integers, Sequences, FiniteSets, TLC

VARIABLES
    files,      \* the regular files of the filesystem (normalised paths)
    dirs,       \* the directories of the filesystem besides / and /app
    environ,    \* os.environ of the process that runs the runner
    pc,         \* where the current request stands: idle, waiting, done
    call,       \* the current request: surface, operation and its inputs
    proc,       \* the child process of the current call of execute_script
    result,     \* the ScriptResult the engine returned to the current request
    response,   \* what the surface answered: HTTP status and body, CLI exit
    query,      \* the last catalog query and its answer
    parsed,     \* the last --env string given to parse_env_vars and its result
    reqs        \* the requests of the HTTP server, each with its child

vars == <<files, dirs, environ, pc, call, proc, result, response, query,
          parsed, reqs>>

(***************************************************************************)
(* Text helpers.                                                           *)
(***************************************************************************)
Min(a, b) == IF a <= b THEN a ELSE b

\* str.startswith
StartsWith(s, prefix) ==
    /\ Len(s) >= Len(prefix)
    /\ SubSeq(s, 1, Len(prefix)) = prefix

\* str.endswith
EndsWith(s, suffix) ==
    /\ Len(s) >= Len(suffix)
    /\ SubSeq(s, Len(s) - Len(suffix) + 1, Len(s)) = suffix

\* str.find(c): the first position of character c in s (1-based), 0 if absent
Find(s, c) ==
    IF \E i \in 1..Len(s) : s[i] = c
    THEN CHOOSE i \in 1..Len(s) : s[i] = c /\ \A j \in 1..(i - 1) : s[j] # c
    ELSE 0

\* str.rfind(c): the last position of character c in s (1-based), 0 if absent
RFind(s, c) ==
    IF \E i \in 1..Len(s) : s[i] = c
    THEN CHOOSE i \in 1..Len(s) : s[i] = c /\ \A j \in (i + 1)..Len(s) : s[j] # c
    ELSE 0

\* str.split(sep): the pieces of s between the occurrences of character sep
RECURSIVE Split(_, _)
Split(s, sep) ==
    LET i == Find(s, sep)
    IN  IF i = 0
        THEN <<s>>
        ELSE <<SubSeq(s, 1, i - 1)>> \o Split(SubSeq(s, i + 1, Len(s)), sep)

\* str.strip(): s without its leading and trailing whitespace
RECURSIVE Strip(_)
Strip(s) ==
    IF s = <<>> THEN s
    ELSE IF Head(s) = " " THEN Strip(Tail(s))
    ELSE IF s[Len(s)] = " " THEN Strip(SubSeq(s, 1, Len(s) - 1))
    ELSE s

(***************************************************************************)
(* Paths: pathlib's join and the operating system's resolution.            *)
(***************************************************************************)
DotPy == <<".", "p", "y">>

App == <<"a", "p", "p">>

Scripts == <<"s", "c", "r", "i", "p", "t", "s">>

\* NovaActScriptRunner.scripts_dir of the global runner: /app/scripts
scripts_dir == <<App, Scripts>>

\* pathlib's parse of a text: its components, "" and "." dropped, ".." kept
RECURSIVE DropDots(_)
DropDots(parts) ==
    IF parts = <<>> THEN <<>>
    ELSE IF Head(parts) = <<>> \/ Head(parts) = <<".">> THEN DropDots(Tail(parts))
    ELSE <<Head(parts)>> \o DropDots(Tail(parts))

PathParts(text) == DropDots(Split(text, "/"))

IsAbsolute(text) == text # <<>> /\ Head(text) = "/"

\* pathlib's base / text: an absolute text replaces the base
JoinPath(base, text) ==
    IF IsAbsolute(text) THEN PathParts(text) ELSE base \o PathParts(text)

\* self.scripts_dir / f"{script_name}.py"
get_script_path(script_name) == JoinPath(scripts_dir, script_name \o DotPy)

NoEntry == <<<<"ENOENT">>>>

IsDir(p) == p = <<>> \/ p = <<App>> \/ p \in dirs

IsFile(p) == p \in files

Parent(p) == IF p = <<>> THEN p ELSE SubSeq(p, 1, Len(p) - 1)

\* The entry the operating system reaches by walking the components of a
\* path from /: every step starts in an existing directory, ".." steps up.
RECURSIVE Walk(_, _)
Walk(cur, parts) ==
    IF parts = <<>> THEN cur
    ELSE IF ~IsDir(cur) THEN NoEntry
    ELSE IF Head(parts) = <<".", ".">> THEN Walk(Parent(cur), Tail(parts))
    ELSE Walk(cur \o <<Head(parts)>>, Tail(parts))

Resolve(path) == Walk(<<>>, path)

\* Path.exists()
PathExists(path) == IsDir(Resolve(path)) \/ IsFile(Resolve(path))

\* Path.is_file()
PathIsFile(path) == IsFile(Resolve(path))

\* Whether a resolved entry lies below the root directory
InsideRoot(entry) ==
    /\ Len(entry) > Len(scripts_dir)
    /\ SubSeq(entry, 1, Len(scripts_dir)) = scripts_dir

(***************************************************************************)
(* The script catalog.                                                     *)
(***************************************************************************)
\* PurePath.stem: the file name without its last suffix
Stem(name) ==
    LET i == RFind(name, ".")
    IN  IF 1 < i /\ i < Len(name) THEN SubSeq(name, 1, i - 1) ELSE name

\* The entries of a directory: the names directly below it
Entries(dir) ==
    {p[Len(p)] : p \in {q \in files \cup dirs : Len(q) = Len(dir) + 1
                                               /\ SubSeq(q, 1, Len(dir)) = dir}}

\* self.scripts_dir.glob("*.py")
GlobPy == {n \in Entries(scripts_dir) : EndsWith(n, DotPy)}

\* Variant: the entries are not checked to be regular files
ListFilterAnyEntry(n) == ~StartsWith(n, <<"_", "_">>)

\* if f.is_file() and not f.name.startswith("__")
ListFilter(n) == IsFile(scripts_dir \o <<n>>) /\ ~StartsWith(n, <<"_", "_">>)

\* NovaActScriptRunner.list_scripts, as the set of the names it returns
list_scripts ==
    IF ~PathExists(scripts_dir)
    THEN {}
    ELSE {Stem(n) : n \in {m \in GlobPy : ListFilter(m)}}

\* NovaActScriptRunner.script_exists
script_exists(script_name) ==
    /\ PathExists(get_script_path(script_name))
    /\ PathIsFile(get_script_path(script_name))


(***************************************************************************)
(* Environments: maps from keys to values.                                 *)
(***************************************************************************)
EmptyMap == [k \in {} |-> <<>>]

\* dict.update: the entries of other replace and extend those of base
Update(base, other) ==
    [k \in DOMAIN base \cup DOMAIN other |->
        IF k \in DOMAIN other THEN other[k] ELSE base[k]]

\* d[key] = value
SetItem(d, key, value) ==
    [k \in DOMAIN d \cup {key} |-> IF k = key THEN value ELSE d[k]]

CredKey == <<"NOVA_ACT_API_KEY">>

\* An optional dict argument: None, or a dict (possibly empty)
NoEnv == [given |-> FALSE, vars |-> EmptyMap]

SomeEnv(m) == [given |-> TRUE, vars |-> m]

\* Python's truth value of an Optional[Dict]: None and {} are false
Truthy(env_vars) == env_vars.given /\ DOMAIN env_vars.vars # {}

(***************************************************************************)
(* cli.parse_env_vars.                                                     *)
(***************************************************************************)
RECURSIVE ParsePairs(_, _)
ParsePairs(pairs, acc) ==
    IF pairs = <<>> THEN acc
    ELSE LET pair == Head(pairs)
             i    == Find(pair, "=")
         IN  IF i = 0
             THEN ParsePairs(Tail(pairs),
                             [acc EXCEPT !.warnings = Append(@, pair)])
             ELSE ParsePairs(Tail(pairs),
                             [acc EXCEPT !.env_vars =
                                 SetItem(@, Strip(SubSeq(pair, 1, i - 1)),
                                            Strip(SubSeq(pair, i + 1, Len(pair))))])

\* Variant: a pair without "=" ends the loop
RECURSIVE ParsePairsBreak(_, _)
ParsePairsBreak(pairs, acc) ==
    IF pairs = <<>> THEN acc
    ELSE LET pair == Head(pairs)
             i    == Find(pair, "=")
         IN  IF i = 0
             THEN [acc EXCEPT !.warnings = Append(@, pair)]
             ELSE ParsePairsBreak(Tail(pairs),
                             [acc EXCEPT !.env_vars =
                                 SetItem(@, Strip(SubSeq(pair, 1, i - 1)),
                                            Strip(SubSeq(pair, i + 1, Len(pair))))])

parse_env_vars_break(env_string) ==
    IF env_string = <<>>
    THEN [env_vars |-> EmptyMap, warnings |-> <<>>]
    ELSE ParsePairsBreak(Split(env_string, ","),
                         [env_vars |-> EmptyMap, warnings |-> <<>>])

\* The dict parse_env_vars returns and the pairs it warned about, in order
parse_env_vars(env_string) ==
    IF env_string = <<>>
    THEN [env_vars |-> EmptyMap, warnings |-> <<>>]
    ELSE ParsePairs(Split(env_string, ","),
                    [env_vars |-> EmptyMap, warnings |-> <<>>])

(***************************************************************************)
(* The engine: ScriptResult and NovaActScriptRunner.execute_script.        *)
(***************************************************************************)
NoneText == <<"None">>

Empty == <<>>

TIMEOUT == 300

TIMEOUT_EXIT == 124

ScriptResult(success, output, error, exit_code) ==
    [success |-> success, output |-> output, error |-> error,
     exit_code |-> exit_code]

NoResult == [success |-> FALSE, output |-> NoneText, error |-> NoneText,
             exit_code |-> -1000]

NotFoundResult(script_name) ==
    ScriptResult(FALSE, Empty,
                 <<"Script '">> \o script_name \o <<"' not found">>, 1)

MissingKeyResult ==
    ScriptResult(FALSE, Empty,
                 <<"NOVA_ACT_API_KEY environment variable is required">>, 1)

FailedResult(e) ==
    ScriptResult(FALSE, Empty, <<"Failed to execute script: ">> \o e, 1)

\* Variant: the timeout is reported like any other failure of subprocess.run
TimeoutAsFailure == FailedResult(<<"TimeoutExpired">>)

TimeoutResult ==
    ScriptResult(FALSE, Empty,
                 <<"Script execution timed out after 5 minutes">>, TIMEOUT_EXIT)

\* Variant: success does not look at the exit code
CompletedAlwaysSuccess(o) ==
    ScriptResult(TRUE, o.out, IF o.err # Empty THEN o.err ELSE NoneText, o.rc)

\* Variant: the inherited environment wins over the overrides
ExecEnvInheritedWins(env_vars) ==
    IF Truthy(env_vars) THEN Update(env_vars.vars, environ) ELSE environ

\* The result of a child that ran to completion
CompletedResult(o) ==
    ScriptResult(o.rc = 0, o.out, IF o.err # Empty THEN o.err ELSE NoneText, o.rc)

\* exec_env = os.environ.copy(); if env_vars: exec_env.update(env_vars)
ExecEnv(env_vars) ==
    IF Truthy(env_vars) THEN Update(environ, env_vars.vars) ELSE environ

NoProc == [state |-> "none", path |-> <<>>, entry |-> <<>>, cwd |-> <<>>,
           env |-> EmptyMap, elapsed |-> 0, rc |-> -1000]

\* subprocess.run starts the child: python <script_path> in scripts_dir
SpawnedProc(script_name, env_vars) ==
    [state |-> "running",
     path |-> get_script_path(script_name),
     entry |-> Resolve(get_script_path(script_name)),
     cwd |-> scripts_dir,
     env |-> ExecEnv(env_vars),
     elapsed |-> 0,
     rc |-> -1000]

\* Variant: the script is started without looking it up first
ExecuteStartNoLookup(script_name, env_vars, spawn_ok) ==
    IF CredKey \notin DOMAIN ExecEnv(env_vars)
    THEN [step |-> "return", result |-> MissingKeyResult]
    ELSE IF ~spawn_ok
    THEN [step |-> "return", result |-> FailedResult(<<"OSError">>)]
    ELSE [step |-> "spawn", result |-> NoResult]

\* execute_script up to the start of the child: the result it returns at
\* once, or "spawn" when the child was started and the call now waits
ExecuteStart(script_name, env_vars, spawn_ok) ==
    IF ~script_exists(script_name)
    THEN [step |-> "return", result |-> NotFoundResult(script_name)]
    ELSE IF CredKey \notin DOMAIN ExecEnv(env_vars)
    THEN [step |-> "return", result |-> MissingKeyResult]
    ELSE IF ~spawn_ok
    THEN [step |-> "return", result |-> FailedResult(<<"OSError">>)]
    ELSE [step |-> "spawn", result |-> NoResult]

(***************************************************************************)
(* Inputs: the filesystems, environments, names and child behaviours the   *)
(* model draws from.                                                       *)
(***************************************************************************)
\* The number of clock steps the model takes through one timeout period
Ticks == 2

\* The longest --env string the parser is tried on, besides the examples
MaxEnvLen == 6

FileA == scripts_dir \o <<<<"a">> \o DotPy>>

FileInit == scripts_dir \o <<<<"_", "_", "i">> \o DotPy>>

FileDot == scripts_dir \o <<DotPy>>

SubDir == scripts_dir \o <<<<"s">>>>

FileSub == SubDir \o <<<<"c">> \o DotPy>>

DirPy == scripts_dir \o <<<<"d">> \o DotPy>>

FileOut == <<App, <<"x">> \o DotPy>>

FileUniverse == {FileA, FileInit, FileDot, FileSub, FileOut}

DirUniverse == {scripts_dir, SubDir, DirPy}

\* A filesystem is consistent when every entry lies in a directory
FsOk(fs, ds) ==
    \A p \in fs \cup ds :
        Parent(p) = <<>> \/ Parent(p) = <<App>> \/ Parent(p) \in ds

\* The names a caller may give: a, b, the empty name, __i, d, ../x, /app/x, s/c
Names ==
    {<<"a">>, <<"b">>, <<>>, <<"_", "_", "i">>, <<"d">>,
     <<".", ".", "/", "x">>, <<"/", "a", "p", "p", "/", "x">>,
     <<"s", "/", "c">>}

\* The names the route /execute/{script_name} matches: one non-empty segment
HttpNames == {n \in Names : n # <<>> /\ Find(n, "/") = 0}

OtherKey == <<"DEBUG">>

Maps(value) ==
    {EmptyMap,
     [k \in {CredKey} |-> value],
     [k \in {OtherKey} |-> value],
     [k \in {CredKey, OtherKey} |-> value]}

Environs == Maps(<<"inherited">>)

EnvArgs == {NoEnv} \cup {SomeEnv(m) : m \in Maps(<<"override">>)}

\* --env strings of the command line: absent, K=o, D=o, K=o,D=o and D=o,junk
CliEnvStrings ==
    {<<>>,
     CredKey \o <<"=", "override">>,
     OtherKey \o <<"=", "override">>,
     CredKey \o <<"=", "override", ",">> \o OtherKey \o <<"=", "override">>,
     OtherKey \o <<"=", "override", ",", "junk">>}

\* What a child does when it runs to completion: exit code, stdout, stderr
ChildOutcomes ==
    {[rc |-> 0, out |-> <<"hello">>, err |-> Empty, decodes |-> TRUE],
     [rc |-> 0, out |-> Empty, err |-> <<"warning">>, decodes |-> TRUE],
     [rc |-> 3, out |-> <<"partial">>, err |-> <<"boom">>, decodes |-> TRUE],
     [rc |-> 1, out |-> Empty, err |-> Empty, decodes |-> TRUE],
     [rc |-> 124, out |-> <<"partial">>, err |-> Empty, decodes |-> TRUE],
     [rc |-> 124, out |-> Empty,
      err |-> <<"Script execution timed out after 5 minutes">>,
      decodes |-> TRUE],
     [rc |-> -9, out |-> Empty, err |-> Empty, decodes |-> TRUE],
     [rc |-> 0, out |-> <<"bytes">>, err |-> Empty, decodes |-> FALSE]}

\* What compile() makes of a script's source
Contents == {"valid", "syntax", "unreadable"}

(***************************************************************************)
(* The surfaces: what each answers for a result of the engine.             *)
(***************************************************************************)
NoBody == [success |-> FALSE, output |-> NoneText, error |-> NoneText,
           exit_code |-> -1000, script_name |-> NoneText]

NoResponse == [status |-> 0, body |-> NoBody, rv |-> -1000, exit |-> -1000,
               msg |-> NoneText]

NoCall == [surface |-> "none", op |-> "none", name |-> <<>>, env_vars |-> NoEnv,
           json |-> FALSE, engine_called |-> FALSE]

NoQuery == [op |-> "none", name |-> <<>>, listed |-> {}, exists |-> FALSE,
            path |-> <<>>]

NoParse == [done |-> FALSE, input |-> <<>>, env_vars |-> EmptyMap,
            warnings |-> <<>>]

\* The exit status the operating system records for sys.exit(rv)
ExitStatus(rv) == rv % 256

\* Variant: a failed script is answered with status 500
HttpOkOrError(script_name, res) ==
    [NoResponse EXCEPT
        !.status = IF res.success THEN 200 ELSE 500,
        !.body = [success |-> res.success, output |-> res.output,
                  error |-> res.error, exit_code |-> res.exit_code,
                  script_name |-> script_name]]

\* server.execute_script: ScriptExecutionResponse of a result, status 200
HttpOk(script_name, res) ==
    [NoResponse EXCEPT
        !.status = 200,
        !.body = [success |-> res.success, output |-> res.output,
                  error |-> res.error, exit_code |-> res.exit_code,
                  script_name |-> script_name]]

\* raise HTTPException(status_code, detail)
HttpError(status, detail) ==
    [NoResponse EXCEPT !.status = status, !.msg = detail]

\* Variant: the command reports only success or failure
CliReturnZeroOne(rv, msg) ==
    [NoResponse EXCEPT !.rv = IF rv = 0 THEN 0 ELSE 1,
                       !.exit = IF rv = 0 THEN 0 ELSE 1,
                       !.msg = msg]

\* cli.execute_script_command returns rv and main passes it to sys.exit
CliReturn(rv, msg) ==
    [NoResponse EXCEPT !.rv = rv, !.exit = ExitStatus(rv), !.msg = msg]

\* What the surface answers once the engine has returned res
Finish(surface, script_name, res) ==
    IF surface = "http" THEN HttpOk(script_name, res)
    ELSE IF surface = "cli" THEN CliReturn(res.exit_code, res.error)
    ELSE NoResponse

\* cli.execute_script_command before it calls the engine: the credential
\* check on os.environ overlaid with the parsed --env pairs
CliGate(env_vars) ==
    LET all_env_vars == IF Truthy(env_vars)
                        THEN Update(environ, env_vars.vars)
                        ELSE environ
    IN  IF CredKey \notin DOMAIN all_env_vars
        THEN "missing-credential"
        ELSE "call"

\* server.execute_script before it calls the engine: 404, then 400
HttpGate(script_name, env_vars) ==
    IF ~script_exists(script_name)
    THEN "not-found"
    ELSE IF /\ CredKey \notin DOMAIN env_vars.vars
            /\ CredKey \notin DOMAIN environ
    THEN "missing-credential"
    ELSE "call"

(***************************************************************************)
(* Actions of the engine and of the surfaces.                              *)
(***************************************************************************)
CanBegin == pc = "idle"

\* A surface (or a direct caller) calls runner.execute_script
CallEngine(surface, script_name, env_vars, json, spawn_ok) ==
    LET start == ExecuteStart(script_name, env_vars, spawn_ok)
    IN  /\ call' = [surface |-> surface, op |-> "execute", name |-> script_name,
                    env_vars |-> env_vars, json |-> json,
                    engine_called |-> TRUE]
        /\ IF start.step = "spawn"
           THEN /\ pc' = "waiting"
                /\ proc' = SpawnedProc(script_name, env_vars)
                /\ result' = NoResult
                /\ response' = NoResponse
           ELSE /\ pc' = "done"
                /\ proc' = NoProc
                /\ result' = start.result
                /\ response' = Finish(surface, script_name, start.result)

\* runner.execute_script called directly
EngineExecute ==
    /\ CanBegin
    /\ \E n \in Names, ev \in EnvArgs, spawn_ok \in BOOLEAN :
           CallEngine("engine", n, ev, FALSE, spawn_ok)
    /\ UNCHANGED <<reqs, files, dirs, environ, query, parsed>>

\* runner.validate_script called directly
EngineValidate ==
    /\ CanBegin
    /\ \E n \in Names, content \in Contents :
        /\ call' = [NoCall EXCEPT !.surface = "engine", !.op = "validate",
                                  !.name = n]
        /\ result' =
             IF ~script_exists(n) THEN NotFoundResult(n)
             ELSE IF content = "valid"
                  THEN ScriptResult(TRUE,
                           <<"Script '">> \o n \o <<"' syntax is valid">>,
                           NoneText, 0)
             ELSE IF content = "syntax"
                  THEN ScriptResult(FALSE, Empty,
                           <<"Syntax error in script: ">>, 1)
             ELSE ScriptResult(FALSE, Empty,
                           <<"Failed to validate script: ">>, 1)
    /\ pc' = "done"
    /\ proc' = NoProc
    /\ response' = NoResponse
    /\ UNCHANGED <<reqs, files, dirs, environ, query, parsed>>

\* cli.main with the execute command, up to the start of the child
CliExecute ==
    /\ CanBegin
    /\ \E n \in Names, env \in CliEnvStrings, json \in BOOLEAN,
          spawn_ok \in BOOLEAN :
        LET env_vars == IF env # <<>>
                        THEN SomeEnv(parse_env_vars(env).env_vars)
                        ELSE NoEnv
        IN  IF CliGate(env_vars) = "missing-credential"
            THEN /\ call' = [surface |-> "cli", op |-> "execute", name |-> n,
                             env_vars |-> env_vars, json |-> json,
                             engine_called |-> FALSE]
                 /\ pc' = "done"
                 /\ proc' = NoProc
                 /\ result' = NoResult
                 /\ response' = CliReturn(1,
                      <<"Error: NOVA_ACT_API_KEY environment variable is required">>)
            ELSE CallEngine("cli", n, env_vars, json, spawn_ok)
    /\ UNCHANGED <<reqs, files, dirs, environ, query, parsed>>

\* server.execute_script (POST /execute/{script_name}), up to the start of
\* the child
HttpExecute ==
    /\ CanBegin
    /\ \E n \in HttpNames, body \in EnvArgs, spawn_ok \in BOOLEAN :
        LET env_vars == IF Truthy(body) THEN body ELSE SomeEnv(EmptyMap)
            rejected(r) ==
                /\ call' = [surface |-> "http", op |-> "execute", name |-> n,
                            env_vars |-> env_vars, json |-> FALSE,
                            engine_called |-> FALSE]
                /\ pc' = "done"
                /\ proc' = NoProc
                /\ result' = NoResult
                /\ response' = r
        IN  IF HttpGate(n, env_vars) = "not-found"
            THEN rejected(HttpError(404,
                     <<"Script '">> \o n \o <<"' not found">>))
            ELSE IF HttpGate(n, env_vars) = "missing-credential"
            THEN rejected(HttpError(400,
                     <<"NOVA_ACT_API_KEY must be provided">>))
            ELSE CallEngine("http", n, env_vars, FALSE, spawn_ok)
    /\ UNCHANGED <<reqs, files, dirs, environ, query, parsed>>

\* Time passes while subprocess.run waits for the child
Tick ==
    /\ pc = "waiting"
    /\ proc.state = "running"
    /\ proc.elapsed < TIMEOUT
    /\ proc' = [proc EXCEPT
                   !.elapsed = Min(proc.elapsed + TIMEOUT \div Ticks, TIMEOUT)]
    /\ UNCHANGED <<reqs, files, dirs, environ, pc, call, result, response,
                   query, parsed>>

\* The child exits before the timeout: subprocess.run returns (or fails to
\* decode the captured bytes) and the surface answers
ChildExit ==
    /\ pc = "waiting"
    /\ proc.state = "running"
    /\ proc.elapsed < TIMEOUT
    /\ \E o \in ChildOutcomes :
        LET res == IF o.decodes THEN CompletedResult(o)
                   ELSE FailedResult(<<"UnicodeDecodeError">>)
        IN  /\ proc' = [proc EXCEPT !.state = "exited", !.rc = o.rc]
            /\ result' = res
            /\ response' = Finish(call.surface, call.name, res)
    /\ pc' = "done"
    /\ UNCHANGED <<reqs, files, dirs, environ, call, query, parsed>>

\* The timeout elapses with the child still running: subprocess.run kills
\* the child and raises TimeoutExpired
Timeout ==
    /\ pc = "waiting"
    /\ proc.state = "running"
    /\ proc.elapsed >= TIMEOUT
    /\ proc' = [proc EXCEPT !.state = "killed"]
    /\ result' = TimeoutResult
    /\ response' = Finish(call.surface, call.name, TimeoutResult)
    /\ pc' = "done"
    /\ UNCHANGED <<reqs, files, dirs, environ, call, query, parsed>>

\* The answer is delivered: the request is over and the next may begin
Return ==
    /\ pc = "done"
    /\ pc' = "idle"
    /\ call' = NoCall
    /\ proc' = NoProc
    /\ result' = NoResult
    /\ response' = NoResponse
    /\ UNCHANGED <<reqs, files, dirs, environ, query, parsed>>

(***************************************************************************)
(* Actions of the catalog and of the --env parser, on their own.           *)
(***************************************************************************)
ListScripts ==
    /\ query' = [NoQuery EXCEPT !.op = "list", !.listed = list_scripts]
    /\ UNCHANGED <<reqs, files, dirs, environ, pc, call, proc, result, response,
                   parsed>>

ScriptExists ==
    /\ \E n \in Names :
           query' = [NoQuery EXCEPT !.op = "exists", !.name = n,
                                    !.exists = script_exists(n),
                                    !.path = Resolve(get_script_path(n))]
    /\ UNCHANGED <<reqs, files, dirs, environ, pc, call, proc, result, response,
                   parsed>>

GetScriptPath ==
    /\ \E n \in Names :
           query' = [NoQuery EXCEPT !.op = "path", !.name = n,
                                    !.path = get_script_path(n)]
    /\ UNCHANGED <<reqs, files, dirs, environ, pc, call, proc, result, response,
                   parsed>>

ParseAlphabet == {"A", "=", ",", " ", "1"}

RECURSIVE Texts(_)
Texts(n) ==
    IF n = 0 THEN {<<>>}
    ELSE LET shorter == Texts(n - 1)
         IN  shorter \cup {Append(t, c) : t \in {u \in shorter : Len(u) = n - 1},
                                         c \in ParseAlphabet}

\* The examples of the documentation: "A=1,B=2" and "A=1,garbage,B=2"
ExampleStrings ==
    {<<"A", "=", "1", ",", "B", "=", "2">>,
     <<"A", "=", "1", ",", "g", "a", "r", "b", "a", "g", "e", ",",
       "B", "=", "2">>}

EnvStrings == Texts(MaxEnvLen) \cup ExampleStrings

\* parse_env_vars applied to the string the state holds
ParseEnv ==
    /\ ~parsed.done
    /\ LET r == parse_env_vars(parsed.input)
       IN  parsed' = [parsed EXCEPT !.done = TRUE, !.env_vars = r.env_vars,
                                    !.warnings = r.warnings]
    /\ UNCHANGED <<reqs, files, dirs, environ, pc, call, proc, result, response,
                   query>>

(***************************************************************************)
(* The HTTP server: several requests, one event loop.                      *)
(***************************************************************************)
\* The number of requests the server holds at a time
MaxReqs == 2

\* The number of processes a child starts itself
MaxDescendants == 1

Slots == 1..MaxReqs

NoReq == [pc |-> "none", kind |-> "none", name |-> <<>>, env_vars |-> NoEnv,
          proc |-> NoProc, descendants |-> 0, held |-> FALSE,
          pending |-> NoResult, result |-> NoResult, response |-> NoResponse]

NoReqs == [r \in Slots |-> NoReq]

ServerNames == {<<"a">>, <<"b">>}

ServerEnvArgs == {NoEnv, SomeEnv([k \in {CredKey} |-> <<"override">>])}

ServerOutcomes == {o \in ChildOutcomes : o.rc \in {0, 3}}

\* Everything but the requests of the server
single == <<files, dirs, environ, pc, call, proc, result, response, query,
            parsed>>

\* A client sends GET /health or POST /execute/{script_name}
Arrive(r) ==
    /\ reqs[r].pc = "none"
    /\ \/ reqs' = [reqs EXCEPT ![r] = [NoReq EXCEPT !.pc = "pending",
                                                    !.kind = "health"]]
       \/ \E n \in ServerNames, body \in ServerEnvArgs :
              reqs' = [reqs EXCEPT ![r] =
                          [NoReq EXCEPT !.pc = "pending", !.kind = "execute",
                                        !.name = n, !.env_vars = body]]
    /\ UNCHANGED single

\* The event loop runs one handler at a time, and the handler of
\* POST /execute does not yield while runner.execute_script waits in
\* subprocess.run
LoopFree == \A r \in Slots : reqs[r].pc # "waiting"

\* server.health_check
HttpHealth(r) ==
    /\ reqs[r].pc = "pending"
    /\ reqs[r].kind = "health"
    /\ LoopFree
    /\ reqs' = [reqs EXCEPT ![r].pc = "done",
                            ![r].response = [NoResponse EXCEPT !.status = 200]]
    /\ UNCHANGED single

\* server.execute_script, up to the start of the child
HttpStart(r) ==
    /\ reqs[r].pc = "pending"
    /\ reqs[r].kind = "execute"
    /\ LoopFree
    /\ \E spawn_ok \in BOOLEAN :
        LET n        == reqs[r].name
            env_vars == IF Truthy(reqs[r].env_vars) THEN reqs[r].env_vars
                        ELSE SomeEnv(EmptyMap)
            start    == ExecuteStart(n, env_vars, spawn_ok)
            answered(res, resp) ==
                reqs' = [reqs EXCEPT ![r].pc = "done", ![r].result = res,
                                     ![r].response = resp]
        IN  IF HttpGate(n, env_vars) = "not-found"
            THEN answered(NoResult, HttpError(404,
                     <<"Script '">> \o n \o <<"' not found">>))
            ELSE IF HttpGate(n, env_vars) = "missing-credential"
            THEN answered(NoResult, HttpError(400,
                     <<"NOVA_ACT_API_KEY must be provided">>))
            ELSE IF start.step = "spawn"
            THEN reqs' = [reqs EXCEPT ![r].pc = "waiting",
                                      ![r].proc = SpawnedProc(n, env_vars)]
            ELSE answered(start.result, HttpOk(n, start.result))
    /\ UNCHANGED single

\* The handler of request r returns res and the response is built
Answer(r, res, state) ==
    reqs' = [reqs EXCEPT ![r].pc = "done",
                         ![r].proc.state = state,
                         ![r].held = FALSE,
                         ![r].result = res,
                         ![r].response = HttpOk(reqs[r].name, res)]

\* The running child starts a process of its own
ServerFork(r) ==
    /\ reqs[r].pc = "waiting"
    /\ reqs[r].proc.state = "running"
    /\ reqs[r].descendants < MaxDescendants
    /\ reqs' = [reqs EXCEPT ![r].descendants = @ + 1]
    /\ UNCHANGED single

\* Time passes while subprocess.run waits for the child and its pipes
ServerTick(r) ==
    /\ reqs[r].pc = "waiting"
    /\ reqs[r].proc.elapsed < TIMEOUT
    /\ reqs' = [reqs EXCEPT ![r].proc.elapsed =
                                 Min(@ + TIMEOUT \div Ticks, TIMEOUT)]
    /\ UNCHANGED single

\* The child exits before the timeout. subprocess.run returns when the
\* pipes of the child are closed: at once, unless a process the child
\* started has inherited them
ServerChildExit(r) ==
    /\ reqs[r].pc = "waiting"
    /\ reqs[r].proc.state = "running"
    /\ reqs[r].proc.elapsed < TIMEOUT
    /\ \E o \in ServerOutcomes, inherited \in BOOLEAN :
        LET res == IF o.decodes THEN CompletedResult(o)
                   ELSE FailedResult(<<"UnicodeDecodeError">>)
        IN  IF inherited /\ reqs[r].descendants > 0
            THEN reqs' = [reqs EXCEPT ![r].proc.state = "exited",
                                      ![r].proc.rc = o.rc,
                                      ![r].held = TRUE,
                                      ![r].pending = res]
            ELSE reqs' = [reqs EXCEPT ![r].pc = "done",
                                      ![r].proc.state = "exited",
                                      ![r].proc.rc = o.rc,
                                      ![r].result = res,
                                      ![r].response = HttpOk(reqs[r].name, res)]
    /\ UNCHANGED single

\* The processes that held the pipes of the exited child close them
ServerPipesClosed(r) ==
    /\ reqs[r].pc = "waiting"
    /\ reqs[r].held
    /\ reqs[r].proc.elapsed < TIMEOUT
    /\ Answer(r, reqs[r].pending, "exited")
    /\ UNCHANGED single

\* A process the child started exits by itself
ServerDescendantExit(r) ==
    /\ reqs[r].descendants > 0
    /\ ~reqs[r].held
    /\ reqs' = [reqs EXCEPT ![r].descendants = @ - 1]
    /\ UNCHANGED single

\* The timeout elapses: subprocess.run kills the child, and only the
\* child, waits for it and raises TimeoutExpired
ServerTimeout(r) ==
    /\ reqs[r].pc = "waiting"
    /\ reqs[r].proc.elapsed >= TIMEOUT
    /\ Answer(r, TimeoutResult,
              IF reqs[r].proc.state = "running" THEN "killed" ELSE "exited")
    /\ UNCHANGED single

\* The response of request r is sent
ServerRespond(r) ==
    /\ reqs[r].pc = "done"
    /\ reqs' = [reqs EXCEPT ![r] = NoReq]
    /\ UNCHANGED single

(***************************************************************************)
(* Specifications.                                                         *)
(***************************************************************************)
Idle ==
    /\ pc = "idle"
    /\ call = NoCall
    /\ proc = NoProc
    /\ result = NoResult
    /\ response = NoResponse
    /\ query = NoQuery
    /\ parsed = NoParse
    /\ reqs = NoReqs

InitFs ==
    /\ files \in SUBSET FileUniverse
    /\ dirs \in SUBSET DirUniverse
    /\ FsOk(files, dirs)

\* The engine and its surfaces, one request at a time
Init ==
    /\ InitFs
    /\ environ \in Environs
    /\ Idle

Next ==
    \/ EngineExecute
    \/ EngineValidate
    \/ CliExecute
    \/ HttpExecute
    \/ Tick
    \/ ChildExit
    \/ Timeout
    \/ Return

Spec == Init /\ [][Next]_vars

\* The catalog, queried on every filesystem
InitCatalog ==
    /\ InitFs
    /\ environ = EmptyMap
    /\ Idle

NextCatalog ==
    \/ ListScripts
    \/ ScriptExists
    \/ GetScriptPath

SpecCatalog == InitCatalog /\ [][NextCatalog]_vars

\* The --env parser, tried on every string of the bounded set
InitParse ==
    /\ files = {}
    /\ dirs = {}
    /\ environ = EmptyMap
    /\ pc = "idle"
    /\ call = NoCall
    /\ proc = NoProc
    /\ result = NoResult
    /\ response = NoResponse
    /\ query = NoQuery
    /\ \E s \in EnvStrings : parsed = [NoParse EXCEPT !.input = s]
    /\ reqs = NoReqs

NextParse == ParseEnv

SpecParse == InitParse /\ [][NextParse]_vars

\* The HTTP server with its requests, on a filesystem that holds the script a
InitServer ==
    /\ files = {FileA}
    /\ dirs = {scripts_dir}
    /\ environ \in {EmptyMap, [k \in {CredKey} |-> <<"inherited">>]}
    /\ Idle

NextServer ==
    \E r \in Slots :
        \/ Arrive(r)
        \/ HttpHealth(r)
        \/ HttpStart(r)
        \/ ServerFork(r)
        \/ ServerTick(r)
        \/ ServerChildExit(r)
        \/ ServerPipesClosed(r)
        \/ ServerDescendantExit(r)
        \/ ServerTimeout(r)
        \/ ServerRespond(r)

SpecServer == InitServer /\ [][NextServer]_vars

(***************************************************************************)
(* Properties of the engine and of the HTTP surface, under Spec.           *)
(***************************************************************************)
\* Whether a regular file <root>/<name>.py exists, the path being the one
\* pathlib joins and the operating system resolves
ScriptFile(script_name) ==
    Resolve(JoinPath(scripts_dir, script_name \o DotPy)) \in files

\* The current request is a finished call of runner.execute_script
ExecuteDone == pc = "done" /\ call.op = "execute" /\ call.engine_called

\* The current request is a finished call of runner.validate_script
ValidateDone == pc = "done" /\ call.op = "validate"

\* C1: for a name with no regular file <root>/<name>.py, execute_script and
\* validate_script return success=false, exit_code=1 and empty output, and
\* the call of execute_script has spawned no child.
C1_NotFound ==
    (ExecuteDone \/ ValidateDone) /\ ~ScriptFile(call.name)
        => /\ result.success = FALSE
           /\ result.exit_code = 1
           /\ result.output = Empty
           /\ proc.state = "none"

C1_Witness ==
    /\ ExecuteDone
    /\ ~ScriptFile(call.name)
    /\ CredKey \in DOMAIN environ
    /\ result.exit_code = 1

\* C2: the environment of the child is os.environ overlaid with the
\* overrides of the request, an override winning on every key they share; a
\* child exists only if NOVA_ACT_API_KEY is in that map, and when it is not
\* the call returns success=false, exit_code=1 without a child.
C2_MergedEnv ==
    call.op = "execute" /\ call.engine_called
        => LET overrides == call.env_vars.vars
               merged    == DOMAIN environ \cup DOMAIN overrides
           IN  /\ proc.state # "none"
                    => /\ DOMAIN proc.env = merged
                       /\ \A k \in DOMAIN overrides : proc.env[k] = overrides[k]
                       /\ \A k \in DOMAIN environ \ DOMAIN overrides :
                              proc.env[k] = environ[k]
                       /\ CredKey \in DOMAIN proc.env
               /\ pc = "done" /\ ScriptFile(call.name) /\ CredKey \notin merged
                    => /\ result.success = FALSE
                       /\ result.exit_code = 1
                       /\ proc.state = "none"

C2_Witness ==
    /\ call.op = "execute"
    /\ call.engine_called
    /\ proc.state = "running"
    /\ \E k \in DOMAIN environ \cap DOMAIN call.env_vars.vars :
           /\ environ[k] # call.env_vars.vars[k]
           /\ proc.env[k] = call.env_vars.vars[k]

\* C3: when the 300 seconds since the spawn have elapsed and the child has
\* not exited, the next step of execute_script kills the child and returns
\* success=false, exit_code=124 and empty output; the wait for the child
\* never lasts longer than the 300 seconds.
C3_Timeout ==
    [][/\ proc'.elapsed <= 300
       /\ proc.state = "running" /\ proc.elapsed >= 300
            => /\ proc'.state = "killed"
               /\ pc' = "done"
               /\ result'.success = FALSE
               /\ result'.exit_code = 124
               /\ result'.output = Empty]_vars

C3_Witness ==
    /\ ExecuteDone
    /\ proc.state = "killed"
    /\ proc.elapsed = 300
    /\ result.exit_code = 124

\* C4: every result of execute_script or validate_script has success = true
\* exactly when exit_code = 0, and execute_script returns success only for
\* a child that was spawned, exited before the timeout and exited with 0.
C4_SuccessIffZero ==
    ExecuteDone \/ ValidateDone
        => /\ result.success <=> result.exit_code = 0
           /\ ExecuteDone /\ result.success
                => /\ proc.state = "exited"
                   /\ proc.elapsed < TIMEOUT
                   /\ proc.rc = 0

C4_Witness ==
    /\ ExecuteDone
    /\ proc.state = "exited"
    /\ proc.rc = 0
    /\ result.success
    /\ result.exit_code = 0

\* C5: POST /execute/{name} answers 404 when the script is missing, else 400
\* when NOVA_ACT_API_KEY is neither in the body's env_vars nor in the
\* server's environment, else 200 with the engine's success, output, error
\* and exit_code plus script_name, also for a script that exited non-zero
\* or timed out.
C5_HttpStatus ==
    pc = "done" /\ call.surface = "http"
        => IF scripts_dir \o <<call.name \o DotPy>> \notin files
           THEN response.status = 404
           ELSE IF /\ CredKey \notin DOMAIN call.env_vars.vars
                   /\ CredKey \notin DOMAIN environ
           THEN response.status = 400
           ELSE /\ response.status = 200
                /\ call.engine_called
                /\ response.body.success = result.success
                /\ response.body.output = result.output
                /\ response.body.error = result.error
                /\ response.body.exit_code = result.exit_code
                /\ response.body.script_name = call.name
                /\ proc.state = "killed" => response.body.exit_code = 124
                /\ proc.state = "exited"
                     => \/ response.body.exit_code = proc.rc
                        \/ result = FailedResult(<<"UnicodeDecodeError">>)

C5_Witness ==
    /\ pc = "done"
    /\ call.surface = "http"
    /\ response.status = 200
    /\ proc.state = "exited"
    /\ proc.rc = 3
    /\ response.body.exit_code = 3
    /\ ~response.body.success

(***************************************************************************)
(* Properties of the command line surface, under Spec.                     *)
(***************************************************************************)
\* The current request is a finished execute command without --json
CliDone == pc = "done" /\ call.surface = "cli" /\ ~call.json

\* The keys of os.environ overlaid with the --env pairs of the request
MergedKeys == DOMAIN environ \cup DOMAIN call.env_vars.vars

\* C6, as stated: without --json the exit code of the CLI process equals
\* the exit_code of the engine's result for every outcome, and without the
\* credential the CLI exits 1 with a message and does not call the engine.
C6_ExitEqualsResult ==
    CliDone
        => IF CredKey \notin MergedKeys
           THEN /\ response.exit = 1
                /\ response.msg # NoneText
                /\ ~call.engine_called
           ELSE /\ call.engine_called
                /\ response.exit = result.exit_code

\* C6, amended: the value execute_script_command returns and main hands to
\* sys.exit equals the exit_code of the engine's result; the exit code of
\* the process is that value for 0..255 (0, the child's own code, 124, 1)
\* and 256 - N for a child killed by signal N, whose exit_code is -N.
C6_ExitStatus ==
    CliDone
        => IF CredKey \notin MergedKeys
           THEN /\ response.exit = 1
                /\ response.msg # NoneText
                /\ ~call.engine_called
           ELSE /\ call.engine_called
                /\ response.rv = result.exit_code
                /\ result.exit_code \in 0..255
                     => response.exit = result.exit_code
                /\ result.exit_code < 0
                     => response.exit = 256 + result.exit_code
                /\ result.success => response.exit = 0
                /\ proc.state = "killed" => response.exit = 124
                /\ proc.state = "none" => response.exit = 1

C6_Witness ==
    /\ CliDone
    /\ call.engine_called
    /\ proc.state = "exited"
    /\ proc.rc = -9
    /\ result.exit_code = -9
    /\ response.exit = 247

(***************************************************************************)
(* Containment in the root directory, under Spec.                          *)
(***************************************************************************)
\* C7: for every name a caller gives, the file execute_script runs and
\* the file validate_script reads lie inside the root directory.
C7_InsideRoot ==
    /\ proc.state # "none" => InsideRoot(proc.entry)
    /\ ValidateDone /\ result.success
         => InsideRoot(Resolve(get_script_path(call.name)))

(***************************************************************************)
(* Properties of the catalog, under SpecCatalog.                           *)
(***************************************************************************)
\* The file names of the regular files *.py directly under the root
ScriptFileNames ==
    {f[Len(f)] : f \in {g \in files : /\ Parent(g) = scripts_dir
                                      /\ EndsWith(g[Len(g)], DotPy)}}

\* The names present in the catalog: name such that <root>/<name>.py is one
CatalogNames == {SubSeq(f, 1, Len(f) - Len(DotPy)) : f \in ScriptFileNames}

Reserved(text) == StartsWith(text, <<"_", "_">>)

\* C8, as stated: every name present in the catalog exists and is listed;
\* only names of regular .py files directly under the root that do not
\* begin with "__" are listed; the list is empty when the root is missing.
C8_ExistsAndListed ==
    /\ query.op = "exists" /\ query.name \in CatalogNames => query.exists
    /\ query.op = "list"
         => /\ \A n \in CatalogNames : n \in query.listed
            /\ \A m \in query.listed :
                   m \in CatalogNames /\ ~Reserved(m \o DotPy)
            /\ scripts_dir \notin dirs => query.listed = {}

\* C8, amended: every name present in the catalog exists; it is listed when
\* it is not empty and does not begin with "__", a name beginning with "__"
\* is not listed, and the empty name (the file ".py") is listed as ".py";
\* nothing else is listed; the list is empty when the root is missing.
C8_Catalog ==
    /\ query.op = "exists" /\ query.name \in CatalogNames => query.exists
    /\ query.op = "list"
         => /\ \A n \in CatalogNames :
                   /\ n # <<>> /\ ~Reserved(n) => n \in query.listed
                   /\ Reserved(n) => n \notin query.listed
                   /\ n = <<>> => DotPy \in query.listed
            /\ \A m \in query.listed :
                   \E n \in CatalogNames :
                       /\ ~Reserved(n \o DotPy)
                       /\ m = IF n = <<>> THEN DotPy ELSE n
            /\ scripts_dir \notin dirs => query.listed = {}

C8_Witness ==
    /\ query.op = "list"
    /\ FileA \in files
    /\ FileInit \in files
    /\ DirPy \in dirs
    /\ <<"a">> \in query.listed
    /\ <<"_", "_", "i">> \notin query.listed

(***************************************************************************)
(* Properties of parse_env_vars, under SpecParse.                          *)
(***************************************************************************)
\* The positions where the comma-separated tokens of s start
TokenStarts(s) == {1} \cup {i + 1 : i \in {j \in 1..Len(s) : s[j] = ","}}

\* The token that starts at position a: up to the next comma or the end
TokenAt(s, a) ==
    LET stops == {j \in a..Len(s) : s[j] = ","} \cup {Len(s) + 1}
        stop  == CHOOSE j \in stops : \A k \in stops : j <= k
    IN  SubSeq(s, a, stop - 1)

\* t without the spaces around it
Trimmed(t) ==
    LET inner == {i \in 1..Len(t) : t[i] # " "}
    IN  IF inner = {} THEN <<>>
        ELSE SubSeq(t, CHOOSE i \in inner : \A k \in inner : i <= k,
                       CHOOSE j \in inner : \A k \in inner : k <= j)

HasEquals(t) == \E i \in 1..Len(t) : t[i] = "="

FirstEquals(t) ==
    CHOOSE i \in 1..Len(t) : t[i] = "=" /\ \A k \in 1..(i - 1) : t[k] # "="

KeyOf(t) == Trimmed(SubSeq(t, 1, FirstEquals(t) - 1))

ValueOf(t) == Trimmed(SubSeq(t, FirstEquals(t) + 1, Len(t)))

\* The mapping of the tokens with "=": the last token of a key gives its value
PairsMap(s) ==
    LET good == {a \in TokenStarts(s) : HasEquals(TokenAt(s, a))}
        keys == {KeyOf(TokenAt(s, a)) : a \in good}
        last(k) == CHOOSE a \in good :
                       /\ KeyOf(TokenAt(s, a)) = k
                       /\ \A b \in good : KeyOf(TokenAt(s, b)) = k => b <= a
    IN  [k \in keys |-> ValueOf(TokenAt(s, last(k)))]

\* The tokens without "=" are the warnings, one each, in their order
WarningsMatch(s, warnings) ==
    LET bad == {a \in TokenStarts(s) : ~HasEquals(TokenAt(s, a))}
    IN  /\ Len(warnings) = Cardinality(bad)
        /\ \A a \in bad :
               warnings[Cardinality({b \in bad : b <= a})] = TokenAt(s, a)

ExampleMap ==
    [k \in {<<"A">>, <<"B">>} |-> IF k = <<"A">> THEN <<"1">> ELSE <<"2">>]

ExampleGarbage ==
    <<"A", "=", "1", ",", "g", "a", "r", "b", "a", "g", "e", ",", "B", "=", "2">>

\* C9: parse_env_vars returns exactly the mapping of the tokens with "="
\* (key before the first "=", value after it, both stripped, a later token
\* overriding an earlier one), each token without "=" costs one warning and
\* changes nothing else; "A=1,garbage,B=2" gives {A: "1", B: "2"} and the
\* empty string the empty mapping.
C9_ParseEnvVars ==
    parsed.done
        => /\ parsed.input = <<>> => parsed.env_vars = EmptyMap
           /\ parsed.input # <<>>
                => /\ parsed.env_vars = PairsMap(parsed.input)
                   /\ WarningsMatch(parsed.input, parsed.warnings)
           /\ parsed.input = ExampleGarbage
                => /\ parsed.env_vars = ExampleMap
                   /\ parsed.warnings = <<<<"g", "a", "r", "b", "a", "g", "e">>>>

C9_Witness ==
    /\ parsed.done
    /\ parsed.input = ExampleGarbage
    /\ parsed.env_vars = ExampleMap
    /\ Len(parsed.warnings) = 1

(***************************************************************************)
(* The two surfaces side by side, under Spec.                              *)
(***************************************************************************)
\* What the engine makes of a request it is called with
EngineKind(script_name, env_vars) ==
    LET start == ExecuteStart(script_name, env_vars, TRUE)
    IN  IF start.step = "spawn" THEN "executed"
        ELSE IF start.result = NotFoundResult(script_name) THEN "not-found"
        ELSE "missing-credential"

\* The outcome kind of the command line surface for a request
CliKind(script_name, env_vars) ==
    IF CliGate(env_vars) # "call" THEN CliGate(env_vars)
    ELSE EngineKind(script_name, env_vars)

\* The outcome kind of the HTTP surface for a request
HttpKind(script_name, env_vars) ==
    IF HttpGate(script_name, env_vars) # "call"
    THEN HttpGate(script_name, env_vars)
    ELSE EngineKind(script_name, env_vars)

\* The outcome kind of the finished request, read off its answer
AnsweredKind ==
    IF call.surface = "http"
    THEN IF response.status = 404 THEN "not-found"
         ELSE IF response.status = 400 THEN "missing-credential"
         ELSE IF proc.state = "none" /\ result = NotFoundResult(call.name)
              THEN "not-found"
         ELSE IF proc.state = "none" /\ result = MissingKeyResult
              THEN "missing-credential"
         ELSE "executed"
    ELSE IF ~call.engine_called THEN "missing-credential"
         ELSE IF proc.state = "none" /\ result = NotFoundResult(call.name)
              THEN "not-found"
         ELSE IF proc.state = "none" /\ result = MissingKeyResult
              THEN "missing-credential"
         ELSE "executed"

\* C10: a request finished on one surface has the outcome kind the other
\* surface gives the same request (same name, same overrides, same
\* environment and filesystem): not-found, missing-credential or executed.
C10_SameKind ==
    (/\ pc = "done"
     /\ call.op = "execute"
     /\ call.surface \in {"cli", "http"}
     /\ call.name \in HttpNames)
        => AnsweredKind = IF call.surface = "cli"
                          THEN HttpKind(call.name, call.env_vars)
                          ELSE CliKind(call.name, call.env_vars)

(***************************************************************************)
(* What a result tells about the outcome, under Spec.                      *)
(***************************************************************************)
\* The results execute_script returns for an infrastructure failure
InfrastructureResults(script_name) ==
    {NotFoundResult(script_name), MissingKeyResult, TimeoutResult,
     FailedResult(<<"OSError">>)}

\* The child of the finished call ran to completion and exited non-zero
ScriptFailed ==
    /\ ExecuteDone
    /\ proc.state = "exited"
    /\ proc.rc # 0
    /\ result.exit_code = proc.rc

\* C13: the result of a script that was spawned, ran to completion and
\* exited non-zero never equals a result execute_script returns for an
\* infrastructure failure (not found, missing credential, spawn failure,
\* timeout), whatever the script wrote and whatever its exit code.
C13_Discriminates ==
    ScriptFailed => result \notin InfrastructureResults(call.name)

(***************************************************************************)
(* Properties of the HTTP server, under SpecServer.                        *)
(***************************************************************************)
\* The event loop can run the handler of request r now
CanServe(r) == ENABLED (HttpHealth(r) \/ HttpStart(r))

\* C11: while one POST /execute request waits for its child, a second
\* request that has arrived (POST /execute or GET /health) can start.
C11_Concurrent ==
    \A r1, r2 \in Slots :
        reqs[r1].pc = "waiting" /\ reqs[r2].pc = "pending" => CanServe(r2)

\* The call of execute_script for request r has returned
Returned(r) == reqs[r].pc = "done" /\ reqs[r].proc.state # "none"

\* C12: when a call of execute_script returns, the child it spawned is no
\* longer running, and after a timeout no process the child started is
\* running either.
C12_NoOrphans ==
    \A r \in Slots :
        Returned(r)
            => /\ reqs[r].proc.state # "running"
               /\ reqs[r].proc.elapsed >= TIMEOUT => reqs[r].descendants = 0

=============================================================================
